---- MODULE Spec2Model ----
(***************************************************************************)
(* A model of reuters_style (src/reuters_style/__init__.py): the slug      *)
(* validators, the Slug value object and the time formatter.               *)
(*                                                                         *)
(* A Python str is a sequence of one-character strings.  A Python value is *)
(* a record [type, val]: type is the name of its Python type and val the   *)
(* characters of the string (for a non-string, the characters of its       *)
(* repr).  The outcome of a call is a record [kind, exc, msg, value]:      *)
(* kind "return" with the returned boolean in value, or kind "raise" with  *)
(* the exception class in exc and its message in msg.                      *)
(***************************************************************************)
EXTENDS Integers, Sequences, FiniteSets, TLC

VARIABLES
    slug,              \* the argument handed to a validator
    fn,                \* the function last called ("none" before any call)
    result,            \* the outcome of that call
    obj,               \* a Slug object: [packaging_slug, wild_slug]
    dt,                \* a datetime: [hour, minute, tzinfo]
    include_timezone,  \* the include_timezone argument of time()
    formatted_time,    \* the string returned by time()
    returned,          \* the string returned by a __str__ or by Slug.full_slug
    other,             \* the value a Slug object is compared with
    third,             \* one more Slug object: [packaging_slug, wild_slug]
    ric                \* a RIC object: [code, title]

vars ==
    <<slug, fn, result, obj, dt, include_timezone, formatted_time, returned,
      other, third, ric>>

-----------------------------------------------------------------------------
(* Characters and the str methods the code uses *)

UpperChars ==
    {"A","B","C","D","E","F","G","H","I","J","K","L","M",
     "N","O","P","Q","R","S","T","U","V","W","X","Y","Z"}

LowerChars ==
    {"a","b","c","d","e","f","g","h","i","j","k","l","m",
     "n","o","p","q","r","s","t","u","v","w","x","y","z"}

DigitChars == {"0","1","2","3","4","5","6","7","8","9"}

\* str.isupper(): every cased character is uppercase and there is at least
\* one cased character.
\* Faulty variant: no cased character needed.
isupper_NoCasedNeeded(s) ==
    \A i \in 1..Len(s) : s[i] \notin LowerChars

isupper(s) ==
    /\ \E i \in 1..Len(s) : s[i] \in UpperChars
    /\ \A i \in 1..Len(s) : s[i] \notin LowerChars

\* str.isalnum(): non-empty and every character is a letter or a digit.
isalnum(s) ==
    /\ Len(s) > 0
    /\ \A i \in 1..Len(s) : s[i] \in UpperChars \cup LowerChars \cup DigitChars

\* str.count(c) for a one-character c.
count(s, c) == Cardinality({i \in 1..Len(s) : s[i] = c})

\* str.endswith(c) for a one-character c.
endswith(s, c) == Len(s) > 0 /\ s[Len(s)] = c

\* c in s
contains(s, c) == \E i \in 1..Len(s) : s[i] = c

\* str.split(c) for a one-character c: the pieces between the occurrences
\* of c, empty pieces included; count(s, c) + 1 pieces in all.
RECURSIVE split(_, _)
split(s, c) ==
    IF ~contains(s, c)
    THEN <<s>>
    ELSE LET i == CHOOSE k \in 1..Len(s) :
                     s[k] = c /\ \A j \in 1..(k - 1) : s[j] # c
         IN  <<SubSeq(s, 1, i - 1)>> \o split(SubSeq(s, i + 1, Len(s)), c)

\* set(terms)
set(terms) == {terms[i] : i \in 1..Len(terms)}

-----------------------------------------------------------------------------
(* Python values and call outcomes *)

Str(s) == [type |-> "str", val |-> s]

\* Faulty variant: the type check lets every value through.
isinstance_str_Any(v) == TRUE

\* isinstance(slug, str)
isinstance_str(v) == v.type = "str"

NoResult == [kind |-> "none", exc |-> "", msg |-> "", value |-> FALSE]

ReturnTrue == [kind |-> "return", exc |-> "", msg |-> "", value |-> TRUE]

Return(b) == [kind |-> "return", exc |-> "", msg |-> "", value |-> b]

ValueError(m) == [kind |-> "raise", exc |-> "ValueError", msg |-> m, value |-> FALSE]

-----------------------------------------------------------------------------
(* The validators *)

\* len(terms) != len(set(terms))
HasDuplicates(terms) == Len(terms) # Cardinality(set(terms))

\* len(slug) > 64
\* Faulty variant: the limit off by one.
TooLong_65(s) == Len(s) > 65

TooLong(s) == Len(s) > 64

\* slug.split("/")[0].split("-")
PackagingTerms(s) == split(split(s, "/")[1], "-")

\* len(terms) < 2 or len(terms) > 5
\* Faulty variant: six terms let through.
PackagingTermCountBad_Six(terms) == Len(terms) < 2 \/ Len(terms) > 6

PackagingTermCountBad(terms) == Len(terms) < 2 \/ Len(terms) > 5

\* len(terms) > 5
\* Faulty variant: six terms let through.
WildTermCountBad_Six(terms) == Len(terms) > 6

WildTermCountBad(terms) == Len(terms) > 5

\* len(term) < 2 for some term
TermTooShort(terms) == \E i \in 1..Len(terms) : Len(terms[i]) < 2

\* not term.isalnum() for some term
TermNotAlnum(terms) == \E i \in 1..Len(terms) : ~isalnum(terms[i])

validate_packaging_slug(v) ==
    IF ~isinstance_str(v)
    THEN ValueError("Packaging slug must be a string.")
    ELSE LET s == v.val IN
    IF Len(s) = 0
    THEN ValueError("Packaging slug cannot be empty.")
    ELSE IF TooLong(s)
    THEN ValueError("Packaging slug cannot be longer than 64 characters.")
    ELSE IF ~isupper(s)
    THEN ValueError("Packaging slug can only contain uppercase letters, hyphens and slashes.")
    ELSE IF ~endswith(s, "/")
    THEN ValueError("Packaging slug must end with a slash.")
    ELSE IF count(s, "/") # 1
    THEN ValueError("Packaging slug can only contain one slash.")
    ELSE LET terms == PackagingTerms(s) IN
    IF PackagingTermCountBad(terms)
    THEN ValueError("Packaging slug must contain two to five terms separated by hyphens.")
    ELSE IF TermTooShort(terms)
    THEN ValueError("Packaging slug terms must be at least two characters long.")
    ELSE IF TermNotAlnum(terms)
    THEN ValueError("Packaging slug terms can only be alphanumeric.")
    ELSE IF HasDuplicates(terms)
    THEN ValueError("Packaging slug terms cannot be duplicated.")
    ELSE ReturnTrue

\* Faulty variant: the alphanumeric check run before the term length check.
validate_wild_slug_AlnumFirst(v) ==
    IF ~isinstance_str(v)
    THEN ValueError("Wild slug must be a string.")
    ELSE LET s == v.val IN
    IF Len(s) = 0
    THEN ValueError("Wild slug cannot be empty.")
    ELSE IF TooLong(s)
    THEN ValueError("Wild slug cannot be longer than 64 characters.")
    ELSE IF ~isupper(s)
    THEN ValueError("Wild slug can only contain uppercase letters, hyphens and slashes.")
    ELSE IF contains(s, "/")
    THEN ValueError("Wild slug cannot contain a slash.")
    ELSE LET terms == split(s, "-") IN
    IF WildTermCountBad(terms)
    THEN ValueError("Wild slug must contain one to five terms separated by hyphens.")
    ELSE IF TermNotAlnum(terms)
    THEN ValueError("Wild slug terms can only be alphanumeric.")
    ELSE IF TermTooShort(terms)
    THEN ValueError("Wild slug terms must be at least two characters long.")
    ELSE IF HasDuplicates(terms)
    THEN ValueError("Wild slug terms cannot be duplicated.")
    ELSE ReturnTrue

validate_wild_slug(v) ==
    IF ~isinstance_str(v)
    THEN ValueError("Wild slug must be a string.")
    ELSE LET s == v.val IN
    IF Len(s) = 0
    THEN ValueError("Wild slug cannot be empty.")
    ELSE IF TooLong(s)
    THEN ValueError("Wild slug cannot be longer than 64 characters.")
    ELSE IF ~isupper(s)
    THEN ValueError("Wild slug can only contain uppercase letters, hyphens and slashes.")
    ELSE IF contains(s, "/")
    THEN ValueError("Wild slug cannot contain a slash.")
    ELSE LET terms == split(s, "-") IN
    IF WildTermCountBad(terms)
    THEN ValueError("Wild slug must contain one to five terms separated by hyphens.")
    ELSE IF TermTooShort(terms)
    THEN ValueError("Wild slug terms must be at least two characters long.")
    ELSE IF TermNotAlnum(terms)
    THEN ValueError("Wild slug terms can only be alphanumeric.")
    ELSE IF HasDuplicates(terms)
    THEN ValueError("Wild slug terms cannot be duplicated.")
    ELSE ReturnTrue

\* Faulty variant: the wild slug validated before the packaging slug.
validate_slug_WildFirst(v) ==
    IF ~isinstance_str(v)
    THEN ValueError("Full slug must be a string.")
    ELSE LET s == v.val IN
    IF Len(s) = 0
    THEN ValueError("Full slug cannot be empty.")
    ELSE IF TooLong(s)
    THEN ValueError("Full slug cannot be longer than 64 characters.")
    ELSE IF count(s, "/") # 1
    THEN ValueError("Full slug can only contain one slash.")
    ELSE LET parts          == split(s, "/")
             packaging_slug == parts[1]
             wild_slug      == parts[2]
             packaging      == validate_packaging_slug(Str(packaging_slug \o <<"/">>))
         IN
    IF Len(wild_slug) > 0 /\ validate_wild_slug(Str(wild_slug)).kind = "raise"
    THEN validate_wild_slug(Str(wild_slug))
    ELSE IF packaging.kind = "raise"
    THEN packaging
    ELSE ReturnTrue

\* Faulty variant: the packaging part handed on without its slash.
validate_slug_NoSlashAppended(v) ==
    IF ~isinstance_str(v)
    THEN ValueError("Full slug must be a string.")
    ELSE LET s == v.val IN
    IF Len(s) = 0
    THEN ValueError("Full slug cannot be empty.")
    ELSE IF TooLong(s)
    THEN ValueError("Full slug cannot be longer than 64 characters.")
    ELSE IF count(s, "/") # 1
    THEN ValueError("Full slug can only contain one slash.")
    ELSE LET parts          == split(s, "/")
             packaging_slug == parts[1]
             wild_slug      == parts[2]
             packaging      == validate_packaging_slug(Str(packaging_slug))
         IN
    IF packaging.kind = "raise"
    THEN packaging
    ELSE IF Len(wild_slug) > 0 /\ validate_wild_slug(Str(wild_slug)).kind = "raise"
    THEN validate_wild_slug(Str(wild_slug))
    ELSE ReturnTrue

validate_slug(v) ==
    IF ~isinstance_str(v)
    THEN ValueError("Full slug must be a string.")
    ELSE LET s == v.val IN
    IF Len(s) = 0
    THEN ValueError("Full slug cannot be empty.")
    ELSE IF TooLong(s)
    THEN ValueError("Full slug cannot be longer than 64 characters.")
    ELSE IF count(s, "/") # 1
    THEN ValueError("Full slug can only contain one slash.")
    ELSE LET parts          == split(s, "/")
             packaging_slug == parts[1]
             wild_slug      == parts[2]
             packaging      == validate_packaging_slug(Str(packaging_slug \o <<"/">>))
         IN
    IF packaging.kind = "raise"
    THEN packaging
    ELSE IF Len(wild_slug) > 0 /\ validate_wild_slug(Str(wild_slug)).kind = "raise"
    THEN validate_wild_slug(Str(wild_slug))
    ELSE ReturnTrue

-----------------------------------------------------------------------------
(* The Slug value object *)

\* f"{value}": a str as it is, any other value by its str().
format(v) == v.val

\* Slug.__str__: f"{self.packaging_slug}{self.wild_slug}"
\* Faulty variant: a separator put between the two fields.
Slug_str_Separator(self) ==
    format(self.packaging_slug) \o <<"/">> \o format(self.wild_slug)

Slug_str(self) == format(self.packaging_slug) \o format(self.wild_slug)

\* Slug.full_slug
Slug_full_slug(self) == Slug_str(self)

\* Slug.validate
Slug_validate(self) == validate_slug(Str(Slug_str(self)))

\* A Slug object as a value; what a method returns: a bool or NotImplemented.
SlugValue(self) == [type |-> "Slug", val |-> self]

Bool(b) == [type |-> "bool", val |-> b]

NotImplemented == [type |-> "NotImplementedType", val |-> FALSE]

\* isinstance(other, Slug)
isinstance_Slug(v) == v.type = "Slug"

\* Slug.__eq__
\* Faulty variant: the comparison @dataclass would generate, field by field.
Slug_eq_Fieldwise(self, that) ==
    IF ~isinstance_Slug(that) THEN NotImplemented ELSE Bool(self = that.val)

Slug_eq(self, that) ==
    IF ~isinstance_Slug(that)
    THEN NotImplemented
    ELSE Bool(Slug_str(self) = Slug_str(that.val))

\* a == b where a or b is a Slug: a's __eq__, then b's when a's gave
\* NotImplemented, then the identity of two distinct objects.  The __eq__
\* of str, int and NoneType gives NotImplemented for a Slug operand.
eq(a, b) ==
    LET forward == IF isinstance_Slug(a) THEN Slug_eq(a.val, b) ELSE NotImplemented
        reflected == IF isinstance_Slug(b) THEN Slug_eq(b.val, a) ELSE NotImplemented
    IN  IF forward.type = "bool" THEN forward.val
        ELSE IF reflected.type = "bool" THEN reflected.val
        ELSE FALSE

\* obj.name = value on a class declared with @dataclass, which is not frozen
setattr(self, name, value) == [self EXCEPT ![name] = value]

\* RIC.__str__
RIC_str(self) == format(self.code)

-----------------------------------------------------------------------------
(* time() *)

DigitOf == <<"0","1","2","3","4","5","6","7","8","9">>

\* f"{n}" for a natural number n
RECURSIVE FormatInt(_)
FormatInt(n) ==
    IF n < 10 THEN <<DigitOf[n + 1]>>
    ELSE FormatInt(n \div 10) \o <<DigitOf[(n % 10) + 1]>>

\* f"{n:02d}" for a natural number n
FormatInt02(n) == IF n < 10 THEN <<"0">> \o FormatInt(n) ELSE FormatInt(n)

S_midnight == <<"m","i","d","n","i","g","h","t">>
S_noon     == <<"n","o","o","n">>
S_am       == <<"a",".","m",".">>
S_pm       == <<"p",".","m",".">>
S_GMT      == <<"G","M","T">>
S_UTC      == <<"U","T","C">>

\* The tzinfo objects a datetime is given: none, the standard library's
\* timezone.utc, pytz's UTC (another object for the same zone), three zones
\* with an offset and timezone(timedelta(hours=2)), whose name starts with
\* "UTC".  abbreviation is strftime("%Z"), utcoffset is in minutes,
\* is_timezone_utc is tzinfo == timezone.utc.
TzTable ==
    [ None      |-> [abbreviation |-> <<>>,  utcoffset |-> 0, is_timezone_utc |-> FALSE],
      stdlibUTC |-> [abbreviation |-> S_UTC, utcoffset |-> 0, is_timezone_utc |-> TRUE],
      pytzUTC   |-> [abbreviation |-> S_UTC, utcoffset |-> 0, is_timezone_utc |-> FALSE],
      Johannesburg |-> [abbreviation |-> <<"S","A","S","T">>, utcoffset |-> 120,
                        is_timezone_utc |-> FALSE],
      Tokyo     |-> [abbreviation |-> <<"J","S","T">>, utcoffset |-> 540,
                     is_timezone_utc |-> FALSE],
      Bogota    |-> [abbreviation |-> <<"-","0","5">>, utcoffset |-> -300,
                     is_timezone_utc |-> FALSE],
      fixedPlus2 |-> [abbreviation |-> <<"U","T","C","+","0","2",":","0","0">>,
                      utcoffset |-> 120, is_timezone_utc |-> FALSE] ]

TzInfos == DOMAIN TzTable

\* bool(dt.tzinfo)
has_tzinfo(d) == d.tzinfo # "None"

\* Faulty variant: noon not told apart from the other hours.
ClockPart_NoNoon(d) ==
    LET hour   == d.hour
        minute == d.minute
    IN  IF minute = 0 /\ hour = 0 THEN S_midnight
        ELSE LET period == IF hour < 12 THEN S_am ELSE S_pm
                 hour12 == IF hour < 12
                           THEN (IF hour = 0 THEN 12 ELSE hour)
                           ELSE (IF hour > 12 THEN hour - 12 ELSE hour)
             IN  IF minute = 0
                 THEN FormatInt(hour12) \o <<" ">> \o period
                 ELSE FormatInt(hour12) \o <<":">> \o FormatInt02(minute)
                          \o <<" ">> \o period

\* The clock part: lines 142 to 166.
ClockPart(d) ==
    LET hour   == d.hour
        minute == d.minute
    IN  IF minute = 0 /\ hour = 0 THEN S_midnight
        ELSE IF minute = 0 /\ hour = 12 THEN S_noon
        ELSE LET period == IF hour < 12 THEN S_am ELSE S_pm
                 hour12 == IF hour < 12
                           THEN (IF hour = 0 THEN 12 ELSE hour)
                           ELSE (IF hour > 12 THEN hour - 12 ELSE hour)
             IN  IF minute = 0
                 THEN FormatInt(hour12) \o <<" ">> \o period
                 ELSE FormatInt(hour12) \o <<":">> \o FormatInt02(minute)
                          \o <<" ">> \o period

\* dt.astimezone(timezone.utc).strftime('%H%M')
GmtHHMM(d) ==
    LET local == d.hour * 60 + d.minute
        gmt   == (local - TzTable[d.tzinfo].utcoffset) % 1440
    IN  FormatInt02(gmt \div 60) \o FormatInt02(gmt % 60)

\* The timezone suffix: lines 168 to 188.
\* Faulty variant: the abbreviation "UTC" shown as it is.
TimezoneSuffix_KeepsUTC(d, with_timezone) ==
    IF with_timezone
    THEN IF has_tzinfo(d)
         THEN <<" ">> \o TzTable[d.tzinfo].abbreviation
         ELSE <<" ">> \o S_GMT
    ELSE IF has_tzinfo(d) /\ ~TzTable[d.tzinfo].is_timezone_utc
         THEN <<" ", "(">> \o GmtHHMM(d) \o <<" ">> \o S_GMT \o <<")">>
         ELSE <<>>

TimezoneSuffix(d, with_timezone) ==
    IF with_timezone
    THEN IF has_tzinfo(d)
         THEN LET name == TzTable[d.tzinfo].abbreviation
                  abbreviation == IF name = S_UTC THEN S_GMT ELSE name
              IN  <<" ">> \o abbreviation
         ELSE <<" ">> \o S_GMT
    ELSE IF has_tzinfo(d) /\ ~TzTable[d.tzinfo].is_timezone_utc
         THEN <<" ", "(">> \o GmtHHMM(d) \o <<" ">> \o S_GMT \o <<")">>
         ELSE <<>>

time(d, with_timezone) == ClockPart(d) \o TimezoneSuffix(d, with_timezone)

-----------------------------------------------------------------------------
(* The arguments the validators are called with *)

MaxLen == 4

MaxTerms == 6

MaxPairTerms == 2

\* Every string of at most MaxLen characters over these characters: two
\* uppercase letters, a lowercase letter, a digit, the two separators and a
\* character that is neither cased nor alphanumeric.
Alphabet == {"A", "B", "a", "1", "-", "/", " "}

SmallStrings == UNION {[1..n -> Alphabet] : n \in 0..MaxLen}

\* Terms as they appear in the tests and docstrings, and a term of 57
\* characters that brings a slug to the length limit.
FERRARI  == <<"F","E","R","R","A","R","I">>
IPO      == <<"I","P","O">>
AB       == <<"A","B">>
I1       == <<"I">>
FERRaRI  == <<"F","E","R","R","a","R","I">>
PROSPECTUS_REPORT ==
    <<"P","R","O","S","P","E","C","T","U","S"," ","R","E","P","O","R","T">>
LongTerm == [i \in 1..57 |-> "X"]
N12      == <<"1","2">>
G20      == <<"G","2","0">>
QUX      == <<"Q","U","X">>

TermList ==
    <<FERRARI, IPO, AB, I1, FERRaRI, PROSPECTUS_REPORT, LongTerm, N12, G20, QUX>>

\* The terms the two halves of a full slug are built from: the first seven.
PairTermCount == Len(TermList) - 3

\* The non-decreasing sequences of n indices in lo..hi.
RECURSIVE SortedIndices(_, _, _)
SortedIndices(n, lo, hi) ==
    IF n = 0
    THEN {<<>>}
    ELSE UNION {{<<i>> \o r : r \in SortedIndices(n - 1, i, hi)} : i \in lo..hi}

\* "-".join(TermList[i] for i in idx)
RECURSIVE JoinTerms(_)
JoinTerms(idx) ==
    IF Len(idx) = 0 THEN <<>>
    ELSE IF Len(idx) = 1 THEN TermList[idx[1]]
    ELSE TermList[idx[1]] \o <<"-">> \o JoinTerms(Tail(idx))

\* The hyphen-joined strings of at most n of the first hi terms.
Joined(n, hi) ==
    {JoinTerms(idx) : idx \in UNION {SortedIndices(k, 1, hi) : k \in 0..n}}

FiveTerms == JoinTerms(<<1, 2, 3, 8, 9>>)

SixTerms == JoinTerms(<<1, 2, 3, 8, 9, 10>>)

PairParts == Joined(MaxPairTerms, PairTermCount) \cup {FiveTerms, SixTerms}

TermStrings ==
    LET J == Joined(MaxTerms, Len(TermList)) IN J \cup {j \o <<"/">> : j \in J}

PairStrings == {p \o <<"/">> \o w : p \in PairParts, w \in PairParts}

NonStrings ==
    { [type |-> "int", val |-> <<"2","2","2">>],
      [type |-> "NoneType", val |-> <<"N","o","n","e">>] }

Arguments ==
    {Str(s) : s \in SmallStrings \cup TermStrings \cup PairStrings} \cup NonStrings

-----------------------------------------------------------------------------
(* The validators as calls: one argument, any of the three functions *)

NoObject == [packaging_slug |-> Str(<<>>), wild_slug |-> Str(<<>>)]

NoDatetime == [hour |-> 0, minute |-> 0, tzinfo |-> "None"]

NoRIC == [code |-> Str(<<>>), title |-> Str(<<>>)]

Init ==
    /\ slug \in Arguments
    /\ fn = "none"
    /\ result = NoResult
    /\ obj = NoObject
    /\ dt = NoDatetime
    /\ include_timezone = TRUE
    /\ formatted_time = <<>>
    /\ returned = <<>>
    /\ other = Str(<<>>)
    /\ third = NoObject
    /\ ric = NoRIC

CallValidateSlug ==
    /\ fn' = "validate_slug"
    /\ result' = validate_slug(slug)
    /\ UNCHANGED <<slug, obj, dt, include_timezone, formatted_time, returned,
                 other, third, ric>>

CallValidatePackagingSlug ==
    /\ fn' = "validate_packaging_slug"
    /\ result' = validate_packaging_slug(slug)
    /\ UNCHANGED <<slug, obj, dt, include_timezone, formatted_time, returned,
                 other, third, ric>>

CallValidateWildSlug ==
    /\ fn' = "validate_wild_slug"
    /\ result' = validate_wild_slug(slug)
    /\ UNCHANGED <<slug, obj, dt, include_timezone, formatted_time, returned,
                 other, third, ric>>

Next ==
    \/ CallValidateSlug
    \/ CallValidatePackagingSlug
    \/ CallValidateWildSlug

Spec == Init /\ [][Next]_vars

-----------------------------------------------------------------------------
(* A Slug object: constructed, then read and validated *)

PackagingFields ==
    {Str(p \o <<"/">>) : p \in PairParts} \cup {Str(p) : p \in PairParts}
        \cup NonStrings

WildFields == {Str(w) : w \in PairParts} \cup NonStrings

InitObj ==
    /\ obj \in [packaging_slug : PackagingFields, wild_slug : WildFields]
    /\ fn = "none"
    /\ result = NoResult
    /\ returned = <<>>
    /\ slug = Str(<<>>)
    /\ dt = NoDatetime
    /\ include_timezone = TRUE
    /\ formatted_time = <<>>
    /\ other = Str(<<>>)
    /\ third = NoObject
    /\ ric = NoRIC

CallSlugStr ==
    /\ fn' = "__str__"
    /\ returned' = Slug_str(obj)
    /\ result' = NoResult
    /\ UNCHANGED <<obj, slug, dt, include_timezone, formatted_time,
                 other, third, ric>>

CallSlugFullSlug ==
    /\ fn' = "full_slug"
    /\ returned' = Slug_full_slug(obj)
    /\ result' = NoResult
    /\ UNCHANGED <<obj, slug, dt, include_timezone, formatted_time,
                 other, third, ric>>

CallSlugValidate ==
    /\ fn' = "validate"
    /\ result' = Slug_validate(obj)
    /\ returned' = <<>>
    /\ UNCHANGED <<obj, slug, dt, include_timezone, formatted_time,
                 other, third, ric>>

NextObj ==
    \/ CallSlugStr
    \/ CallSlugFullSlug
    \/ CallSlugValidate

SpecObj == InitObj /\ [][NextObj]_vars

-----------------------------------------------------------------------------
(* time(): one datetime, formatted *)

InitTime ==
    /\ dt \in [hour : 0..23, minute : 0..59, tzinfo : TzInfos]
    /\ include_timezone \in BOOLEAN
    /\ fn = "none"
    /\ formatted_time = <<>>
    /\ result = NoResult
    /\ returned = <<>>
    /\ slug = Str(<<>>)
    /\ obj = NoObject
    /\ other = Str(<<>>)
    /\ third = NoObject
    /\ ric = NoRIC

CallTime ==
    /\ fn' = "time"
    /\ formatted_time' = time(dt, include_timezone)
    /\ UNCHANGED <<dt, include_timezone, result, returned, slug, obj,
                 other, third, ric>>

NextTime == CallTime

SpecTime == InitTime /\ [][NextTime]_vars

-----------------------------------------------------------------------------
(* Slug and RIC objects as records: comparison and field assignment *)

IPO_AB == <<"I","P","O","-","A","B">>

\* Fields that give one string form from several splits: "IPO-AB/G20" cut
\* at three places, and 222 with None, as values and as their texts.
RecordPackagingFields ==
    { Str(IPO_AB \o <<"/">>), Str(IPO_AB), Str(<<"I","P","O","-">>),
      Str(<<"2","2","2">>), [type |-> "int", val |-> <<"2","2","2">>] }

RecordWildFields ==
    { Str(G20), Str(<<"/">> \o G20), Str(AB \o <<"/">> \o G20),
      [type |-> "NoneType", val |-> <<"N","o","n","e">>] }

RecordSlugs == [packaging_slug : RecordPackagingFields, wild_slug : RecordWildFields]

ThirdSlugs ==
    [packaging_slug : {Str(IPO_AB), Str(<<"2","2","2">>)},
     wild_slug : {Str(<<"/">> \o G20), [type |-> "NoneType", val |-> <<"N","o","n","e">>]}]

OtherValues == {Str(IPO_AB \o <<"/">> \o G20)} \cup NonStrings

RicCodes == {Str(<<"A","A","P","L",".","O">>), Str(<<"E","U","R","=">>)}

RicTitles == {Str(<<"A","p","p","l","e"," ","I","n","c">>), Str(<<"E","u","r","o">>)}

InitRecord ==
    /\ obj \in RecordSlugs
    /\ other \in {SlugValue(o) : o \in RecordSlugs} \cup OtherValues
    /\ third \in ThirdSlugs
    /\ ric \in [code : RicCodes, title : RicTitles]
    /\ fn = "none"
    /\ result = NoResult
    /\ returned = <<>>
    /\ slug = Str(<<>>)
    /\ dt = NoDatetime
    /\ include_timezone = TRUE
    /\ formatted_time = <<>>

\* obj == other
CallSlugEq ==
    /\ fn' = "__eq__"
    /\ result' = Return(eq(SlugValue(obj), other))
    /\ returned' = <<>>
    /\ UNCHANGED <<obj, other, third, ric, slug, dt, include_timezone, formatted_time>>

\* other == obj
CallSlugEqReflected ==
    /\ fn' = "__eq__ reflected"
    /\ result' = Return(eq(other, SlugValue(obj)))
    /\ returned' = <<>>
    /\ UNCHANGED <<obj, other, third, ric, slug, dt, include_timezone, formatted_time>>

\* str(ric)
CallRicStr ==
    /\ fn' = "RIC.__str__"
    /\ returned' = RIC_str(ric)
    /\ result' = NoResult
    /\ UNCHANGED <<obj, other, third, ric, slug, dt, include_timezone, formatted_time>>

\* obj.packaging_slug = value, obj.wild_slug = value
SetSlugField ==
    /\ \E name \in {"packaging_slug", "wild_slug"} :
         \E value \in (IF name = "packaging_slug" THEN RecordPackagingFields
                                                  ELSE RecordWildFields) :
             obj' = setattr(obj, name, value)
    /\ fn' = "__setattr__"
    /\ result' = NoResult
    /\ returned' = <<>>
    /\ UNCHANGED <<other, third, ric, slug, dt, include_timezone, formatted_time>>

\* ric.code = value, ric.title = value
SetRicField ==
    /\ \E name \in {"code", "title"} :
         \E value \in (IF name = "code" THEN RicCodes ELSE RicTitles) :
             ric' = setattr(ric, name, value)
    /\ fn' = "RIC.__setattr__"
    /\ result' = NoResult
    /\ returned' = <<>>
    /\ UNCHANGED <<obj, other, third, slug, dt, include_timezone, formatted_time>>

NextRecord ==
    \/ CallSlugEq
    \/ CallSlugEqReflected
    \/ CallSlugStr
    \/ CallSlugFullSlug
    \/ CallSlugValidate
    \/ CallRicStr
    \/ SetSlugField
    \/ SetRicField

SpecRecord == InitRecord /\ [][NextRecord]_vars

-----------------------------------------------------------------------------
(* Vocabulary of the properties *)

IsString == slug.type = "str"

\* The part of s before its first "/" and the part after it.
BeforeSlash(s) ==
    LET i == CHOOSE k \in 1..Len(s) : s[k] = "/" /\ \A j \in 1..(k - 1) : s[j] # "/"
    IN  SubSeq(s, 1, i - 1)

AfterSlash(s) ==
    LET i == CHOOSE k \in 1..Len(s) : s[k] = "/" /\ \A j \in 1..(k - 1) : s[j] # "/"
    IN  SubSeq(s, i + 1, Len(s))

\* Uppercase letters with a space among them.
UppercaseWithSpace(s) ==
    /\ \E i \in 1..Len(s) : s[i] = " "
    /\ \E i \in 1..Len(s) : s[i] \in UpperChars
    /\ \A i \in 1..Len(s) : s[i] \in UpperChars \cup {" "}

\* A string as the code takes "uppercase": it has an uppercase letter and no
\* lowercase letter.
Uppercase(s) ==
    /\ \E i \in 1..Len(s) : s[i] \in UpperChars
    /\ ~ \E i \in 1..Len(s) : s[i] \in LowerChars

\* The terms are alphanumeric, at least two characters long and pairwise
\* distinct.
GoodTerms(terms) ==
    /\ \A i \in 1..Len(terms) :
          /\ Len(terms[i]) >= 2
          /\ \A k \in 1..Len(terms[i]) :
                terms[i][k] \in UpperChars \cup LowerChars \cup DigitChars
    /\ \A i, j \in 1..Len(terms) : i # j => terms[i] # terms[j]

-----------------------------------------------------------------------------
(* C1 *)

\* C1 (as claimed): a full slug with a valid packaging part and a wild part
\* of uppercase letters with a space in it makes validate_slug fail with
\* "Wild slug can only contain uppercase letters, hyphens and slashes.", and
\* so does validate_wild_slug on such a wild part.
C1_SpaceGivesUppercaseMessage ==
    /\ ( /\ fn = "validate_wild_slug"
         /\ IsString
         /\ Len(slug.val) <= 64
         /\ UppercaseWithSpace(slug.val) )
       => result = ValueError(
              "Wild slug can only contain uppercase letters, hyphens and slashes.")
    /\ ( /\ fn = "validate_slug"
         /\ IsString
         /\ Len(slug.val) <= 64
         /\ count(slug.val, "/") = 1
         /\ validate_packaging_slug(Str(BeforeSlash(slug.val) \o <<"/">>)) = ReturnTrue
         /\ UppercaseWithSpace(AfterSlash(slug.val)) )
       => result = ValueError(
              "Wild slug can only contain uppercase letters, hyphens and slashes.")

\* What the code does on the docstring's example: the uppercase check lets
\* the space through and the alphanumeric check reports it.
C1_DocstringExampleReached ==
    /\ fn = "validate_slug"
    /\ slug = Str(FERRARI \o <<"-">> \o IPO \o <<"/">> \o PROSPECTUS_REPORT)
    /\ result = ValueError("Wild slug terms can only be alphanumeric.")

-----------------------------------------------------------------------------
(* C2, under SpecObj *)

BothFieldsValid ==
    /\ validate_packaging_slug(obj.packaging_slug) = ReturnTrue
    /\ validate_wild_slug(obj.wild_slug) = ReturnTrue

\* C2 (as claimed): a Slug built from a packaging slug and a wild slug that
\* each pass their validator has full_slug equal to the two concatenated and
\* validate() returns True.
C2_RoundTripAnyLength ==
    BothFieldsValid =>
        /\ fn = "full_slug" => returned = obj.packaging_slug.val \o obj.wild_slug.val
        /\ fn = "validate" => result = ReturnTrue

\* C2 (amended): the same, for the pairs whose combined length is at most 64
\* characters; a longer pair makes validate() fail with the full slug's
\* length message.
C2_RoundTrip ==
    BothFieldsValid =>
        /\ fn = "full_slug" => returned = obj.packaging_slug.val \o obj.wild_slug.val
        /\ fn = "validate" =>
              IF Len(obj.packaging_slug.val) + Len(obj.wild_slug.val) <= 64
              THEN result = ReturnTrue
              ELSE result = ValueError("Full slug cannot be longer than 64 characters.")

\* A valid pair of exactly 64 characters has been validated.
C2_Witness ==
    /\ BothFieldsValid
    /\ Len(obj.packaging_slug.val) + Len(obj.wild_slug.val) = 64
    /\ fn = "validate"
    /\ result = ReturnTrue

-----------------------------------------------------------------------------
(* C3 *)

\* C3: validate_slug returns True exactly for the strings of 1 to 64
\* characters with exactly one "/", whose part before it, with "/" appended,
\* passes validate_packaging_slug and whose part after it is empty or passes
\* validate_wild_slug; on every other input it raises; it never returns
\* False.
C3_ValidateSlugExactly ==
    fn = "validate_slug" =>
        LET accepted ==
                /\ IsString
                /\ Len(slug.val) >= 1
                /\ Len(slug.val) <= 64
                /\ Cardinality({i \in 1..Len(slug.val) : slug.val[i] = "/"}) = 1
                /\ validate_packaging_slug(
                       Str(BeforeSlash(slug.val) \o <<"/">>)) = ReturnTrue
                /\ \/ AfterSlash(slug.val) = <<>>
                   \/ validate_wild_slug(Str(AfterSlash(slug.val))) = ReturnTrue
        IN  /\ accepted => result = ReturnTrue
            /\ ~accepted => result.kind = "raise"
            /\ ~(result.kind = "return" /\ result.value = FALSE)

\* A full slug of exactly 64 characters with a wild part has been accepted.
C3_Witness ==
    /\ fn = "validate_slug"
    /\ IsString
    /\ Len(slug.val) = 64
    /\ result = ReturnTrue
    /\ AfterSlash(slug.val) # <<>>

-----------------------------------------------------------------------------
(* C4 *)

\* The packaging slugs of the data model: at most 64 characters, uppercase,
\* one "/" and that at the end, two to five good terms before it.
PackagingShape(s) ==
    /\ Len(s) <= 64
    /\ Len(s) >= 1
    /\ Uppercase(s)
    /\ s[Len(s)] = "/"
    /\ \A i \in 1..(Len(s) - 1) : s[i] # "/"
    /\ LET terms == split(SubSeq(s, 1, Len(s) - 1), "-")
       IN  /\ Len(terms) >= 2
           /\ Len(terms) <= 5
           /\ GoodTerms(terms)

\* C4: validate_packaging_slug returns True exactly for the strings of the
\* packaging shape and raises on everything else; a slug of two terms of two
\* characters passes; a slug that ends in its only "/" and has one term, six
\* terms or a term of one character fails.
C4_PackagingSlugExactly ==
    fn = "validate_packaging_slug" =>
        /\ (result = ReturnTrue) <=> (IsString /\ PackagingShape(slug.val))
        /\ result # ReturnTrue => result.kind = "raise"
        /\ ( /\ IsString
             /\ Len(slug.val) = 6
             /\ slug.val[3] = "-"
             /\ slug.val[6] = "/"
             /\ Uppercase(slug.val)
             /\ GoodTerms(<<SubSeq(slug.val, 1, 2), SubSeq(slug.val, 4, 5)>>) )
           => result = ReturnTrue
        /\ ( /\ IsString
             /\ endswith(slug.val, "/")
             /\ count(slug.val, "/") = 1
             /\ LET terms == split(BeforeSlash(slug.val), "-")
                IN  \/ Len(terms) = 1
                    \/ Len(terms) = 6
                    \/ \E i \in 1..Len(terms) : Len(terms[i]) = 1 )
           => result.kind = "raise"

\* Six terms that are good taken one by one, within the length limit, have
\* been refused for their number.
C4_SixTermsRefused ==
    /\ fn = "validate_packaging_slug"
    /\ IsString
    /\ Len(slug.val) <= 64
    /\ endswith(slug.val, "/")
    /\ count(slug.val, "/") = 1
    /\ Len(split(BeforeSlash(slug.val), "-")) = 6
    /\ GoodTerms(split(BeforeSlash(slug.val), "-"))
    /\ Uppercase(slug.val)
    /\ result = ValueError(
           "Packaging slug must contain two to five terms separated by hyphens.")

\* A slug of two terms of two characters has been accepted.
C4_Witness ==
    /\ fn = "validate_packaging_slug"
    /\ IsString
    /\ Len(slug.val) = 6
    /\ result = ReturnTrue

-----------------------------------------------------------------------------
(* C5 *)

\* The wild slugs of the data model: 1 to 64 characters, uppercase, no "/",
\* one to five good terms.
WildShape(s) ==
    /\ Len(s) >= 1
    /\ Len(s) <= 64
    /\ Uppercase(s)
    /\ \A i \in 1..Len(s) : s[i] # "/"
    /\ LET terms == split(s, "-")
       IN  /\ Len(terms) >= 1
           /\ Len(terms) <= 5
           /\ GoodTerms(terms)

\* The shape but for a repeated term.
WildShapeButRepeated(s) ==
    /\ Len(s) >= 1
    /\ Len(s) <= 64
    /\ Uppercase(s)
    /\ \A i \in 1..Len(s) : s[i] # "/"
    /\ LET terms == split(s, "-")
       IN  /\ Len(terms) <= 5
           /\ \A i \in 1..Len(terms) :
                 /\ Len(terms[i]) >= 2
                 /\ \A k \in 1..Len(terms[i]) :
                       terms[i][k] \in UpperChars \cup LowerChars \cup DigitChars
           /\ \E i, j \in 1..Len(terms) : i # j /\ terms[i] = terms[j]

\* C5: validate_wild_slug returns True exactly for the strings of the wild
\* shape and raises on everything else; a wild slug that is of the shape but
\* for a repeated term fails with "Wild slug terms cannot be duplicated."
C5_WildSlugExactly ==
    fn = "validate_wild_slug" =>
        /\ (result = ReturnTrue) <=> (IsString /\ WildShape(slug.val))
        /\ result # ReturnTrue => result.kind = "raise"
        /\ (IsString /\ WildShapeButRepeated(slug.val))
           => result = ValueError("Wild slug terms cannot be duplicated.")

\* FERRARI-FERRARI has been refused for its repeated term.
C5_Witness ==
    /\ fn = "validate_wild_slug"
    /\ slug = Str(FERRARI \o <<"-">> \o FERRARI)
    /\ result = ValueError("Wild slug terms cannot be duplicated.")

-----------------------------------------------------------------------------
(* C6 *)

PastLengthCheck == IsString /\ Len(slug.val) >= 1 /\ Len(slug.val) <= 64

UppercaseFailure ==
    IF fn = "validate_packaging_slug"
    THEN ValueError(
             "Packaging slug can only contain uppercase letters, hyphens and slashes.")
    ELSE ValueError(
             "Wild slug can only contain uppercase letters, hyphens and slashes.")

HasLowercase == \E i \in 1..Len(slug.val) : slug.val[i] \in LowerChars

HasCased == \E i \in 1..Len(slug.val) : slug.val[i] \in UpperChars \cup LowerChars

\* C6 (as claimed): past the type, non-empty and length checks, the
\* uppercase check of validate_wild_slug and validate_packaging_slug fails
\* if and only if the string contains a lowercase letter.
C6_UppercaseFailsIffLowercase ==
    (fn \in {"validate_packaging_slug", "validate_wild_slug"} /\ PastLengthCheck)
        => ((result = UppercaseFailure) <=> HasLowercase)

\* C6 (amended): the uppercase check fails if and only if the string
\* contains a lowercase letter or no cased character at all; a string of
\* digits and hyphens alone fails it.
C6_UppercaseFailsIffLowercaseOrCaseless ==
    (fn \in {"validate_packaging_slug", "validate_wild_slug"} /\ PastLengthCheck)
        => ((result = UppercaseFailure) <=> (HasLowercase \/ ~HasCased))

\* A string of digits and a hyphen has failed the uppercase check.
C6_Witness ==
    /\ fn = "validate_wild_slug"
    /\ slug = Str(<<"1", "-", "1">>)
    /\ result = UppercaseFailure

-----------------------------------------------------------------------------
(* C7 *)

\* The rules of validate_packaging_slug in the listed order, each with
\* whether the argument breaks it and the message that reports it.
PackagingRules ==
    LET s     == slug.val
        terms == split(split(s, "/")[1], "-")
    IN  << [broken |-> ~IsString,
            msg    |-> "Packaging slug must be a string."],
           [broken |-> Len(s) = 0,
            msg    |-> "Packaging slug cannot be empty."],
           [broken |-> Len(s) > 64,
            msg    |-> "Packaging slug cannot be longer than 64 characters."],
           [broken |-> ~Uppercase(s),
            msg    |-> "Packaging slug can only contain uppercase letters, hyphens and slashes."],
           [broken |-> (Len(s) = 0 \/ s[Len(s)] # "/"),
            msg    |-> "Packaging slug must end with a slash."],
           [broken |-> Cardinality({i \in 1..Len(s) : s[i] = "/"}) # 1,
            msg    |-> "Packaging slug can only contain one slash."],
           [broken |-> Len(terms) \notin 2..5,
            msg    |-> "Packaging slug must contain two to five terms separated by hyphens."],
           [broken |-> \E i \in 1..Len(terms) : Len(terms[i]) < 2,
            msg    |-> "Packaging slug terms must be at least two characters long."],
           [broken |-> \E i \in 1..Len(terms) : ~isalnum(terms[i]),
            msg    |-> "Packaging slug terms can only be alphanumeric."],
           [broken |-> \E i, j \in 1..Len(terms) : i # j /\ terms[i] = terms[j],
            msg    |-> "Packaging slug terms cannot be duplicated."] >>

\* The rules of validate_wild_slug in the listed order.
WildRules ==
    LET s     == slug.val
        terms == split(s, "-")
    IN  << [broken |-> ~IsString,
            msg    |-> "Wild slug must be a string."],
           [broken |-> Len(s) = 0,
            msg    |-> "Wild slug cannot be empty."],
           [broken |-> Len(s) > 64,
            msg    |-> "Wild slug cannot be longer than 64 characters."],
           [broken |-> ~Uppercase(s),
            msg    |-> "Wild slug can only contain uppercase letters, hyphens and slashes."],
           [broken |-> \E i \in 1..Len(s) : s[i] = "/",
            msg    |-> "Wild slug cannot contain a slash."],
           [broken |-> Len(terms) > 5,
            msg    |-> "Wild slug must contain one to five terms separated by hyphens."],
           [broken |-> \E i \in 1..Len(terms) : Len(terms[i]) < 2,
            msg    |-> "Wild slug terms must be at least two characters long."],
           [broken |-> \E i \in 1..Len(terms) : ~isalnum(terms[i]),
            msg    |-> "Wild slug terms can only be alphanumeric."],
           [broken |-> \E i, j \in 1..Len(terms) : i # j /\ terms[i] = terms[j],
            msg    |-> "Wild slug terms cannot be duplicated."] >>

BrokenRules(rules) == {i \in 1..Len(rules) : rules[i].broken}

\* The failure of the earliest broken rule, or True when none is broken.
EarliestFailure(rules) ==
    IF BrokenRules(rules) = {}
    THEN ReturnTrue
    ELSE LET first == CHOOSE i \in BrokenRules(rules) :
                          \A j \in BrokenRules(rules) : i <= j
         IN  ValueError(rules[first].msg)

-----------------------------------------------------------------------------
(* C8 *)

FullSlugMessages ==
    { "Full slug must be a string.",
      "Full slug cannot be empty.",
      "Full slug cannot be longer than 64 characters.",
      "Full slug can only contain one slash." }

WildRuleMessages == {WildRules[i].msg : i \in 1..Len(WildRules)}

PackagingRuleMessages == {PackagingRules[i].msg : i \in 1..Len(PackagingRules)}

\* C8: validate_slug reports its own failures (not a string, empty, longer
\* than 64 characters, slash count other than one, in that order) before
\* anything about the two parts; with one slash, an invalid packaging part
\* is what is reported whatever the wild part is, and a wild slug failure is
\* raised only when the packaging part is valid.
C8_FullSlugThenPackagingThenWild ==
    fn = "validate_slug" =>
        LET s == slug.val
            oneSlash == Cardinality({i \in 1..Len(s) : s[i] = "/"}) = 1
        IN  IF ~IsString
            THEN result = ValueError("Full slug must be a string.")
            ELSE IF Len(s) = 0
            THEN result = ValueError("Full slug cannot be empty.")
            ELSE IF Len(s) > 64
            THEN result = ValueError("Full slug cannot be longer than 64 characters.")
            ELSE IF ~oneSlash
            THEN result = ValueError("Full slug can only contain one slash.")
            ELSE LET packaging == validate_packaging_slug(Str(BeforeSlash(s) \o <<"/">>))
                     wild      == validate_wild_slug(Str(AfterSlash(s)))
                 IN  /\ result.msg \notin FullSlugMessages
                     /\ packaging.kind = "raise" => result = packaging
                     /\ result.msg \in WildRuleMessages =>
                           (packaging = ReturnTrue /\ result = wild)

\* Both parts are invalid and the packaging slug's failure has been raised.
C8_Witness ==
    /\ fn = "validate_slug"
    /\ IsString
    /\ Len(slug.val) <= 64
    /\ count(slug.val, "/") = 1
    /\ validate_packaging_slug(Str(BeforeSlash(slug.val) \o <<"/">>)).kind = "raise"
    /\ AfterSlash(slug.val) # <<>>
    /\ validate_wild_slug(Str(AfterSlash(slug.val))).kind = "raise"
    /\ result.msg \in PackagingRuleMessages

-----------------------------------------------------------------------------
(* C9 *)

MustBeAString ==
    CASE fn = "validate_slug" -> "Full slug must be a string."
      [] fn = "validate_packaging_slug" -> "Packaging slug must be a string."
      [] fn = "validate_wild_slug" -> "Wild slug must be a string."
      [] OTHER -> ""

\* C9: on an argument that is not a string each of the three validators
\* raises a ValueError, as for bad content, with the message "<subject> must
\* be a string.", whatever the other checks would say of the argument.
C9_NonStringIsValueError ==
    (fn # "none" /\ ~IsString) =>
        /\ result.kind = "raise"
        /\ result.exc = "ValueError"
        /\ result.msg = MustBeAString

\* None has been refused by validate_wild_slug.
C9_Witness ==
    /\ fn = "validate_wild_slug"
    /\ slug.type = "NoneType"
    /\ result.exc = "ValueError"
    /\ result.msg = "Wild slug must be a string."

-----------------------------------------------------------------------------
(* C10, under SpecTime *)

\* The two digits of n < 100, and n without a leading zero.
TwoDigits(n) == <<DigitOf[(n \div 10) + 1], DigitOf[(n % 10) + 1]>>

Plain(n) == IF n < 10 THEN <<DigitOf[n + 1]>> ELSE TwoDigits(n)

\* The hour of the 12-hour clock: 12 for hours 0 and 12, the hour for 1 to
\* 11, the hour less 12 for 13 to 23.
TwelveHour(hour) ==
    IF hour \in {0, 12} THEN 12
    ELSE IF hour \in 1..11 THEN hour
    ELSE hour - 12

\* The clock part the style asks for.
StyleClock(hour, minute) ==
    LET period == IF hour < 12 THEN <<"a", ".", "m", ".">> ELSE <<"p", ".", "m", ".">>
    IN  IF hour = 0 /\ minute = 0 THEN <<"m", "i", "d", "n", "i", "g", "h", "t">>
        ELSE IF hour = 12 /\ minute = 0 THEN <<"n", "o", "o", "n">>
        ELSE IF minute = 0 THEN Plain(TwelveHour(hour)) \o <<" ">> \o period
        ELSE Plain(TwelveHour(hour)) \o <<":">> \o TwoDigits(minute)
                 \o <<" ">> \o period

\* text is clock alone, or clock, a space and a suffix.
HasClockPart(text, clock) ==
    /\ Len(text) >= Len(clock)
    /\ SubSeq(text, 1, Len(clock)) = clock
    /\ Len(text) > Len(clock) => text[Len(clock) + 1] = " "

\* C10: for every hour and minute the clock part of what time() returns is
\* "midnight" exactly at 0:00, "noon" exactly at 12:00, and otherwise
\* "<h> <period>" or "<h>:<mm> <period>" with h of the 12-hour clock, in
\* 1..12, and the minute on two digits; "12 a.m." and "12 p.m." never appear.
C10_ClockPart ==
    fn = "time" =>
        /\ HasClockPart(formatted_time, StyleClock(dt.hour, dt.minute))
        /\ HasClockPart(formatted_time, S_midnight) <=> (dt.hour = 0 /\ dt.minute = 0)
        /\ HasClockPart(formatted_time, S_noon) <=> (dt.hour = 12 /\ dt.minute = 0)
        /\ TwelveHour(dt.hour) \in 1..12
        /\ ~HasClockPart(formatted_time, <<"1", "2", " ", "a", ".", "m", ".">>)
        /\ ~HasClockPart(formatted_time, <<"1", "2", " ", "p", ".", "m", ".">>)

\* Half past midnight has been formatted, with the hour shown as 12.
C10_Witness ==
    /\ fn = "time"
    /\ dt.hour = 0
    /\ dt.minute = 30
    /\ HasClockPart(formatted_time,
                    <<"1", "2", ":", "3", "0", " ", "a", ".", "m", ".">>)

-----------------------------------------------------------------------------
(* C11, under SpecTime *)

\* The zone the style shows for a datetime: GMT without timezone info and
\* for the abbreviation "UTC", the abbreviation otherwise.
StyleZone(d) ==
    IF d.tzinfo = "None" THEN <<"G", "M", "T">>
    ELSE IF TzTable[d.tzinfo].abbreviation = <<"U", "T", "C">> THEN <<"G", "M", "T">>
    ELSE TzTable[d.tzinfo].abbreviation

\* C11: with include_timezone true, what time() returns is the clock part,
\* one space and the zone, also after "noon" and "midnight": GMT for a
\* datetime without timezone info, the zone's abbreviation otherwise, with
\* GMT in the place of "UTC"; the zone shown is never "UTC".
C11_ZoneSuffix ==
    (fn = "time" /\ include_timezone) =>
        /\ formatted_time = StyleClock(dt.hour, dt.minute) \o <<" ">> \o StyleZone(dt)
        /\ formatted_time # StyleClock(dt.hour, dt.minute) \o <<" ", "U", "T", "C">>

\* Noon in timezone.utc has been formatted as "noon GMT".
C11_Witness ==
    /\ fn = "time"
    /\ include_timezone
    /\ dt = [hour |-> 12, minute |-> 0, tzinfo |-> "stdlibUTC"]
    /\ formatted_time = <<"n", "o", "o", "n", " ", "G", "M", "T">>

-----------------------------------------------------------------------------
(* C12, under SpecTime *)

\* The datetime is in UTC: its zone is called UTC and has no offset.
InUTC(d) ==
    /\ d.tzinfo # "None"
    /\ TzTable[d.tzinfo].abbreviation = <<"U", "T", "C">>
    /\ TzTable[d.tzinfo].utcoffset = 0

\* The 24-hour clock time of the same instant in UTC: local time less the
\* zone's offset, wrapped within the day.
StyleGmt(d) ==
    LET gmt == (d.hour * 60 + d.minute - TzTable[d.tzinfo].utcoffset) % (24 * 60)
    IN  TwoDigits(gmt \div 60) \o TwoDigits(gmt % 60)

\* C12 (as claimed): with include_timezone false, time() appends nothing to
\* the clock part when the datetime has no timezone info or is already in
\* UTC, and " (HHMM GMT)" otherwise.
C12_BracketUnlessNaiveOrUTC ==
    (fn = "time" /\ ~include_timezone) =>
        IF dt.tzinfo = "None" \/ InUTC(dt)
        THEN formatted_time = StyleClock(dt.hour, dt.minute)
        ELSE formatted_time =
                 StyleClock(dt.hour, dt.minute) \o <<" ", "(">> \o StyleGmt(dt)
                     \o <<" ", "G", "M", "T", ")">>

\* 12:30 in pytz's UTC, a tzinfo for UTC that is not the object
\* timezone.utc, has been formatted as "12:30 p.m. (1230 GMT)".
C12_UTCBracketed ==
    /\ fn = "time"
    /\ ~include_timezone
    /\ dt = [hour |-> 12, minute |-> 30, tzinfo |-> "pytzUTC"]
    /\ formatted_time =
           <<"1", "2", ":", "3", "0", " ", "p", ".", "m", ".", " ",
             "(", "1", "2", "3", "0", " ", "G", "M", "T", ")">>

-----------------------------------------------------------------------------
(* C13, under SpecRecord *)

\* The values at hand, and the Slug objects among them.
Operands == {SlugValue(obj), SlugValue(third), other}

SlugOperands == {v \in Operands : isinstance_Slug(v)}

SameStringForm(a, b) == Slug_str(a.val) = Slug_str(b.val)

\* What a comparison of obj with other must give.
EqualityExpected ==
    IF isinstance_Slug(other)
    THEN Return(SameStringForm(SlugValue(obj), other))
    ELSE Return(FALSE)

\* C13: two Slug objects are equal exactly when their string forms are
\* equal, whatever the split between the fields, so that equality is
\* reflexive, symmetric and transitive; a comparison of a Slug with a value
\* of another type, on either side, returns false and raises nothing.
C13_EqualByStringForm ==
    /\ \A a \in SlugOperands : \A b \in SlugOperands :
           eq(a, b) <=> SameStringForm(a, b)
    /\ \A a \in SlugOperands : eq(a, a)
    /\ \A a \in SlugOperands : \A b \in Operands : eq(a, b) <=> eq(b, a)
    /\ \A a \in SlugOperands : \A b \in SlugOperands : \A c \in SlugOperands :
           (eq(a, b) /\ eq(b, c)) => eq(a, c)
    /\ \A a \in SlugOperands : \A b \in Operands \ SlugOperands :
           ~eq(a, b) /\ ~eq(b, a)
    /\ fn \in {"__eq__", "__eq__ reflected"} => result = EqualityExpected

\* Three objects that split "IPO-AB/G20" at three places, the first two
\* compared and found equal.
C13_Witness ==
    /\ fn = "__eq__"
    /\ result = Return(TRUE)
    /\ obj = [packaging_slug |-> Str(<<"I","P","O","-">>),
              wild_slug |-> Str(<<"A","B","/","G","2","0">>)]
    /\ other = SlugValue([packaging_slug |-> Str(<<"I","P","O","-","A","B","/">>),
                          wild_slug |-> Str(<<"G","2","0">>)])
    /\ third = [packaging_slug |-> Str(<<"I","P","O","-","A","B">>),
                wild_slug |-> Str(<<"/","G","2","0">>)]

-----------------------------------------------------------------------------
(* C14, under SpecRecord *)

\* C14 (as claimed): RIC and Slug are immutable records: no step, a field
\* assignment included, changes code, title, packaging_slug or wild_slug.
C14_FieldsNeverChange == [][obj' = obj /\ ric' = ric]_vars

\* The part of it that the code keeps: str(), full_slug, equality and
\* validate() leave every field as it was.
C14_MethodsKeepFields ==
    [][fn' \notin {"__setattr__", "RIC.__setattr__"} => (obj' = obj /\ ric' = ric)]_vars

-----------------------------------------------------------------------------
(* C15, under Spec *)

\* The messages of the checks that validate_slug's own checks make pass.
NeverRaisedMessages ==
    { "Packaging slug must be a string.",
      "Packaging slug cannot be empty.",
      "Packaging slug cannot be longer than 64 characters.",
      "Packaging slug must end with a slash.",
      "Packaging slug can only contain one slash.",
      "Wild slug must be a string.",
      "Wild slug cannot be empty.",
      "Wild slug cannot be longer than 64 characters.",
      "Wild slug cannot contain a slash." }

\* The other messages of the two parts: uppercase, term count, term length,
\* alphanumeric, duplicates.
RemainingMessages ==
    { "Packaging slug can only contain uppercase letters, hyphens and slashes.",
      "Packaging slug must contain two to five terms separated by hyphens.",
      "Packaging slug terms must be at least two characters long.",
      "Packaging slug terms can only be alphanumeric.",
      "Packaging slug terms cannot be duplicated.",
      "Wild slug can only contain uppercase letters, hyphens and slashes.",
      "Wild slug must contain one to five terms separated by hyphens.",
      "Wild slug terms must be at least two characters long.",
      "Wild slug terms can only be alphanumeric.",
      "Wild slug terms cannot be duplicated." }

\* C15: validate_slug never raises one of the nine messages about a part
\* that is not a string, is empty, is longer than 64 characters or has the
\* wrong slashes; every failure it raises is a ValueError with one of the
\* four "Full slug" messages or one of the ten remaining messages.
C15_UnreachableChecks ==
    (fn = "validate_slug" /\ result.kind = "raise") =>
        /\ result.exc = "ValueError"
        /\ result.msg \notin NeverRaisedMessages
        /\ result.msg \in FullSlugMessages \cup RemainingMessages

\* validate_slug has raised one of the remaining messages for a string
\* that each of the other two validators refuses with one of the nine.
C15_Witness ==
    /\ fn = "validate_slug"
    /\ IsString
    /\ result.kind = "raise"
    /\ result.msg \in RemainingMessages
    /\ validate_packaging_slug(slug).kind = "raise"
    /\ validate_packaging_slug(slug).msg \in NeverRaisedMessages
    /\ validate_wild_slug(slug).kind = "raise"
    /\ validate_wild_slug(slug).msg \in NeverRaisedMessages

====
